---- MODULE Spec2Model ----
(***************************************************************************)
(* A model of the stream filters of streams/ostream.hpp and                *)
(* streams/istream.hpp: buf_ostream over a sink (vector_ostream,           *)
(* span_ostream or stdio_base_ostream), buf_istream and unget_istream      *)
(* over a source (span_istream or stdio_base_istream).                     *)
(*                                                                         *)
(* A byte is a number, a span or a vector is a sequence of bytes.  Every   *)
(* public call is a sequence of steps: the position inside the call is     *)
(* kept in opc (output side) and ipc (input side), and while a call is in  *)
(* progress only its next step is enabled.                                 *)
(***************************************************************************)
EXTENDS Integers, Sequences, FiniteSets, TLC

\* ------------------------------------------------------------------ bounds
MaxLen == 3
MaxCap == 3
MaxSpan == 2
MaxCalls == 3
LongLen == 25
MaxReads == 3
MaxUngetOps == 4
MaxReq == 3
MaxBuf == 3
TestCap == 10

Byte == {0, 1}

\* ----------------------------------------------------------------- helpers
Min(a, b) == IF a < b THEN a ELSE b

\* gsl::span::first(n) and gsl::span::subspan(n)
First(s, n) == SubSeq(s, 1, n)
Subspan(s, n) == SubSeq(s, n + 1, Len(s))

SeqsUpTo(A, n) == UNION {[1..k -> A] : k \in 0..n}

\* The byte sequences handed to the write calls.
Inputs == SeqsUpTo(Byte, MaxLen)
LongInput == [i \in 1..LongLen |-> i % 256]

VARIABLES
    \* the caller of the output side
    S,              \* the bytes the caller writes, in order
    pos,            \* how many bytes of S have been passed to write calls
    ops,            \* the calls made on the buf_ostream so far
    oret,           \* how the last call ended: [exc, val]
    \* buf_ostream
    cap,            \* _buffer.capacity(), as reserved at construction
    buffer,         \* _buffer
    opc,            \* position inside the call in progress
    fctx,           \* who runs non_virtual_flush: "write", "flush", "dtor"
    bytes,          \* _write: the view still to be consumed
    total,          \* _write: total
    available,      \* _write: available
    \* the downstream sink
    sink_kind,      \* "vector", "span" or "stdio"
    sink_v,         \* bytes the sink accepted (vector_ostream::_v, the written
                    \* part of the span, the FILE)
    span_free,      \* span_ostream::_free.size()
    sink_ret,       \* what the last _sink.write returned (accepted count)
    sink_exc,       \* the failure the sink raised during the current call
    wlog,           \* sizes of the views passed to _sink.write, in order
    nflush,         \* number of _sink.flush calls
    span_size,      \* size of the span the span_ostream was constructed over
    \* what the caller saw when it made the call in progress (or the last one)
    entry           \* [asked, fill, nwrites, nflush]

VARIABLES
    \* the caller of the input side
    iops,           \* the calls made so far: [op, n, v]
    iret,           \* the prefix the last read returned
    iexc,           \* the failure that left the last read ("none" if none)
    got,            \* all returned prefixes, concatenated
    \* the upstream source
    up_kind,        \* "span" or "stdio"
    src,            \* the bytes of the source
    span_available, \* span_istream::_available, as the offset of its start
    ureads,         \* sizes of the views passed to _source.read, in order
    \* buf_istream
    bcap,           \* _buffer.size() (0: no buf_istream constructed)
    is_buffer,      \* _buffer
    av_off, av_len, \* _available, a sub-view of _buffer
    is_eof,         \* _eof
    ipc,            \* position inside the read in progress
    s_left,         \* _read: s.size()
    view,           \* _read: the bytes copied to the caller's view so far
    \* unget_istream
    ug_buffer       \* _buffer

VARIABLES
    \* buf_ostreams stacked on a vector_ostream, outermost first
    st_caps,        \* the capacity of each buf_ostream
    st_bufs,        \* the _buffer of each buf_ostream
    st_vec          \* the vector of the vector_ostream at the bottom

stVars == <<st_caps, st_bufs, st_vec>>

outVars == <<S, pos, ops, oret, cap, buffer, opc, fctx, bytes, total,
             available, sink_kind, sink_v, span_free, sink_ret, sink_exc,
             wlog, nflush, span_size, entry, stVars>>

VARIABLES
    \* istream::read_until
    ru_pc,          \* "none" before any call, "get" in the loop, "done"
    ru_sentinel,    \* the sentinel of the call
    ru_v,           \* v, the bytes collected so far
    ru_n,           \* Len(iops) when the last get() was accounted for
    ru_from,        \* how many bytes the caller had received at the call
    ru_ret          \* what the last call returned

ruVars == <<ru_pc, ru_sentinel, ru_v, ru_n, ru_from, ru_ret>>

VARIABLES
    \* basic_get_line
    gl_pc,          \* "none", "first" (first get_char), "next", "done"
    gl_nl,          \* nl, the delimiter of the call
    gl_s,           \* s, the line collected so far
    gl_n,           \* Len(iops) when the last get_char was accounted for
    gl_from,        \* how many bytes the caller had received at the call
    gl_ret,         \* what the last call returned: [some, s]
    gl_out          \* what the completed calls returned, in order

glVars == <<gl_pc, gl_nl, gl_s, gl_n, gl_from, gl_ret, gl_out>>

VARIABLES
    \* istream::get<T>
    g_pc,           \* "none", "read" (inside get), "done"
    g_size,         \* sizeof(T)
    g_n,            \* Len(iops) at the call, then at the return
    g_from,         \* how many bytes the source had delivered at the call
    g_ret           \* what the last get returned: [some, val]

getVars == <<g_pc, g_size, g_n, g_from, g_ret>>

inVars == <<iops, iret, iexc, got, up_kind, src, span_available, ureads,
            bcap, is_buffer, av_off, av_len, is_eof, ipc, s_left, view,
            ug_buffer, ruVars, glVars, getVars>>

vars == <<outVars, inVars>>

\* ------------------------------------------------------------- the sinks

\* vector_ostream::_write: always accepts the whole view.
vector_ostream_write(n) == {[acc |-> n, thr |-> FALSE]}

span_ostream_write_all(n, free) == {[acc |-> n, thr |-> FALSE]}

\* span_ostream::_write: accepts what fits into _free, 0 once it is empty.
span_ostream_write(n, free) ==
    {[acc |-> IF free <= 0 THEN 0 ELSE Min(n, free), thr |-> FALSE]}

\* stdio_base_ostream::_write: fwrite reports a count; write_error is thrown
\* when ferror() is set afterwards.  A short count comes with the error set.
stdio_ostream_write(n) ==
    {[acc |-> k, thr |-> t] : k \in 0..n, t \in BOOLEAN} \
        {[acc |-> k, thr |-> FALSE] : k \in 0..(n - 1)}

\* ostream::write on the sink, by dynamic type.
SinkWrite(kind, n, free) ==
    CASE kind = "vector" -> vector_ostream_write(n)
      [] kind = "span" -> span_ostream_write(n, free)
      [] kind = "stdio" -> stdio_ostream_write(n)

\* ostream::flush on the sink: the default _flush does nothing, the stdio
\* one throws flush_error when fflush fails.
SinkFlush(kind) == IF kind = "stdio" THEN {FALSE, TRUE} ELSE {FALSE}

\* ----------------------------------------------------------- buf_ostream

Ok(v) == [exc |-> "none", val |-> v]
Raised(e) == [exc |-> e, val |-> 0]

NeedsFlushGe(n, avail) == n >= avail
NeedsFlushCap(n, avail) == n > cap

\* while (bytes.size() > available)
NeedsFlush(n, avail) == n > avail

WriteResultRest(tot, rest) == Len(rest)

\* return total;
WriteResult(tot, rest) == tot

FirstChunkNone(b, avail) == <<>>

\* bytes.first(available): the part copied before the flush
FirstChunk(b, avail) == First(b, avail)

HasBufferedAlways(b) == TRUE

\* if (!_buffer.empty())
HasBuffered(b) == b /= <<>>

ClearedKeep(b) == b

\* _buffer.clear()
Cleared(b) == <<>>

SwallowsNothing(ctx) == FALSE
SwallowsAll(ctx) == TRUE

\* Where an exception of non_virtual_flush goes: no_throw_flush catches it in
\* the destructor, _flush and _write let it pass to the caller.
Swallows(ctx) == ctx = "dtor"

\* buf_ostream(os, size): _buffer.reserve(size).  capacity() is the size
\* reserved: nothing is appended beyond it, so the vector never grows.
Construct(kind, c, free, input) ==
    /\ S = input
    /\ pos = 0
    /\ ops = <<>>
    /\ oret = Ok(0)
    /\ cap = c
    /\ buffer = <<>>
    /\ opc = "idle"
    /\ fctx = "none"
    /\ bytes = <<>>
    /\ total = 0
    /\ available = 0
    /\ sink_kind = kind
    /\ sink_v = <<>>
    /\ span_free = free
    /\ sink_ret = 0
    /\ sink_exc = "none"
    /\ wlog = <<>>
    /\ nflush = 0
    /\ span_size = free
    /\ entry = [asked |-> 0, fill |-> 0, nwrites |-> 0, nflush |-> 0]
    /\ st_caps = <<>>
    /\ st_bufs = <<>>
    /\ st_vec = <<>>

\* The state a call starts from, with the size of the view it is given.
AtEntry(k) ==
    [asked |-> k, fill |-> Len(buffer), nwrites |-> Len(wlog),
     nflush |-> nflush]

\* ostream::write -> buf_ostream::_write, up to the loop
WriteCall(k) ==
    /\ opc = "idle"
    /\ Len(ops) < MaxCalls
    /\ k \in 0..(Len(S) - pos)
    /\ bytes' = SubSeq(S, pos + 1, pos + k)
    /\ pos' = pos + k
    /\ total' = k
    /\ available' = cap - Len(buffer)
    /\ ops' = Append(ops, "write")
    /\ entry' = AtEntry(k)
    /\ sink_exc' = "none"
    /\ opc' = "w_loop"
    /\ UNCHANGED inVars
    /\ UNCHANGED stVars
    /\ UNCHANGED span_size
    /\ UNCHANGED <<S, oret, cap, buffer, fctx, sink_kind, sink_v, span_free,
                   sink_ret, wlog, nflush>>

\* The loop test of _write, then either the copy of the part that fits
\* (followed by flush()) or the copy of the rest and the return.
WriteLoop ==
    /\ opc = "w_loop"
    /\ IF NeedsFlush(Len(bytes), available)
       THEN /\ buffer' = buffer \o FirstChunk(bytes, available)
            /\ fctx' = "write"
            /\ opc' = "fl_write"
            /\ UNCHANGED oret
       ELSE /\ buffer' = buffer \o bytes
            /\ oret' = Ok(WriteResult(total, bytes))
            /\ opc' = "idle"
            /\ UNCHANGED fctx
    /\ UNCHANGED inVars
    /\ UNCHANGED stVars
    /\ UNCHANGED <<span_size, entry>>
    /\ UNCHANGED <<S, pos, ops, cap, bytes, total, available, sink_kind,
                   sink_v, span_free, sink_ret, sink_exc, wlog, nflush>>

\* bytes = bytes.subspan(available); available = capacity - size
WriteSub ==
    /\ opc = "w_sub"
    /\ bytes' = Subspan(bytes, available)
    /\ available' = cap - Len(buffer)
    /\ opc' = "w_loop"
    /\ UNCHANGED inVars
    /\ UNCHANGED stVars
    /\ UNCHANGED <<span_size, entry>>
    /\ UNCHANGED <<S, pos, ops, oret, cap, buffer, fctx, total, sink_kind,
                   sink_v, span_free, sink_ret, sink_exc, wlog, nflush>>

\* ostream::flush -> buf_ostream::_flush
FlushCall ==
    /\ opc = "idle"
    /\ Len(ops) < MaxCalls
    /\ ops' = Append(ops, "flush")
    /\ entry' = AtEntry(0)
    /\ fctx' = "flush"
    /\ sink_exc' = "none"
    /\ opc' = "fl_write"
    /\ UNCHANGED inVars
    /\ UNCHANGED stVars
    /\ UNCHANGED span_size
    /\ UNCHANGED <<S, pos, oret, cap, buffer, bytes, total, available,
                   sink_kind, sink_v, span_free, sink_ret, wlog, nflush>>

DestroyNoFlush ==
    /\ opc = "idle"
    /\ ops' = Append(ops, "dtor")
    /\ entry' = AtEntry(0)
    /\ fctx' = "dtor"
    /\ sink_exc' = "none"
    /\ oret' = Ok(0)
    /\ opc' = "dead"
    /\ UNCHANGED inVars
    /\ UNCHANGED stVars
    /\ UNCHANGED span_size
    /\ UNCHANGED <<S, pos, cap, buffer, bytes, total, available, sink_kind,
                   sink_v, span_free, sink_ret, wlog, nflush>>

\* ~buf_ostream -> no_throw_flush
Destroy ==
    /\ opc = "idle"
    /\ ops' = Append(ops, "dtor")
    /\ entry' = AtEntry(0)
    /\ fctx' = "dtor"
    /\ sink_exc' = "none"
    /\ opc' = "fl_write"
    /\ UNCHANGED inVars
    /\ UNCHANGED stVars
    /\ UNCHANGED span_size
    /\ UNCHANGED <<S, pos, oret, cap, buffer, bytes, total, available,
                   sink_kind, sink_v, span_free, sink_ret, wlog, nflush>>

\* An exception leaves non_virtual_flush.
Thrown(e) ==
    /\ sink_exc' = e
    /\ IF Swallows(fctx)
       THEN opc' = "dead" /\ oret' = Ok(0)
       ELSE opc' = "idle" /\ oret' = Raised(e)

\* non_virtual_flush: if (!_buffer.empty()) _sink.write(_buffer);
FlushWrite ==
    /\ opc = "fl_write"
    /\ IF HasBuffered(buffer)
       THEN \E out \in SinkWrite(sink_kind, Len(buffer), span_free) :
              /\ sink_v' = sink_v \o First(buffer, out.acc)
              /\ span_free' = IF sink_kind = "span"
                              THEN span_free - out.acc ELSE span_free
              /\ sink_ret' = out.acc
              /\ wlog' = Append(wlog, Len(buffer))
              /\ IF out.thr
                 THEN Thrown("write_error")
                 ELSE opc' = "fl_clear" /\ UNCHANGED <<oret, sink_exc>>
       ELSE /\ opc' = "fl_flush"
            /\ UNCHANGED <<sink_v, span_free, sink_ret, wlog, oret, sink_exc>>
    /\ UNCHANGED inVars
    /\ UNCHANGED stVars
    /\ UNCHANGED <<span_size, entry>>
    /\ UNCHANGED <<S, pos, ops, cap, buffer, fctx, bytes, total, available,
                   sink_kind, nflush>>

\* non_virtual_flush: _buffer.clear();
FlushClear ==
    /\ opc = "fl_clear"
    /\ buffer' = Cleared(buffer)
    /\ opc' = "fl_flush"
    /\ UNCHANGED inVars
    /\ UNCHANGED stVars
    /\ UNCHANGED <<span_size, entry>>
    /\ UNCHANGED <<S, pos, ops, oret, cap, fctx, bytes, total, available,
                   sink_kind, sink_v, span_free, sink_ret, sink_exc, wlog,
                   nflush>>

\* non_virtual_flush: _sink.flush(); then back to whoever asked for it.
FlushSink ==
    /\ opc = "fl_flush"
    /\ nflush' = nflush + 1
    /\ \E thr \in SinkFlush(sink_kind) :
         IF thr
         THEN Thrown("flush_error")
         ELSE /\ UNCHANGED sink_exc
              /\ CASE fctx = "write" -> opc' = "w_sub" /\ UNCHANGED oret
                   [] fctx = "flush" -> opc' = "idle" /\ oret' = Ok(0)
                   [] fctx = "dtor" -> opc' = "dead" /\ oret' = Ok(0)
    /\ UNCHANGED inVars
    /\ UNCHANGED stVars
    /\ UNCHANGED <<span_size, entry>>
    /\ UNCHANGED <<S, pos, ops, cap, buffer, fctx, bytes, total, available,
                   sink_kind, sink_v, span_free, sink_ret, wlog>>

OutStep == WriteLoop \/ WriteSub \/ FlushWrite \/ FlushClear \/ FlushSink

\* ostream::write -> span_ostream::_write, with no buf_ostream in between
\* (cap = 0): the view is the next k bytes of S, sink_v the part of the span
\* filled so far, span_free the size of unused().
SpanWrite(k) ==
    /\ opc = "idle"
    /\ cap = 0
    /\ sink_kind = "span"
    /\ Len(ops) < MaxCalls
    /\ k \in 0..(Len(S) - pos)
    /\ pos' = pos + k
    /\ ops' = Append(ops, "write")
    /\ entry' = AtEntry(k)
    /\ wlog' = Append(wlog, k)
    /\ \E out \in span_ostream_write(k, span_free) :
         /\ sink_v' = sink_v \o First(SubSeq(S, pos + 1, pos + k), out.acc)
         /\ span_free' = span_free - out.acc
         /\ sink_ret' = out.acc
         /\ sink_exc' = IF out.thr THEN "write_error" ELSE "none"
         /\ oret' = IF out.thr THEN Raised("write_error") ELSE Ok(out.acc)
    /\ UNCHANGED inVars
    /\ UNCHANGED stVars
    /\ UNCHANGED span_size
    /\ UNCHANGED <<S, cap, buffer, opc, fctx, bytes, total, available,
                   sink_kind, nflush>>

\* ------------------------------------------------- stacked buf_ostreams

\* A stack is [bufs, vec]: the _buffer of each buf_ostream, outermost first,
\* and the vector below them.  Level Len(caps) + 1 is the vector_ostream.
RECURSIVE WriteAt(_, _, _, _)
RECURSIVE FlushAt(_, _, _)

SinkFlushedNot(level, caps, st) == st

\* non_virtual_flush: _sink.flush()
SinkFlushed(level, caps, st) == FlushAt(level + 1, caps, st)

\* ostream::flush on level: the default _flush of the vector_ostream does
\* nothing; buf_ostream::_flush -> non_virtual_flush.
FlushAt(level, caps, st) ==
    IF level > Len(caps) THEN st
    ELSE LET b == st.bufs[level]
             written == IF HasBuffered(b)
                        THEN [WriteAt(level + 1, caps, st, b)
                                EXCEPT !.bufs[level] = Cleared(b)]
                        ELSE st
         IN SinkFlushed(level, caps, written)

\* ostream::write on level: vector_ostream::_write appends the view;
\* buf_ostream::_write runs its loop, one pass per recursion.
WriteAt(level, caps, st, v) ==
    IF level > Len(caps) THEN [st EXCEPT !.vec = st.vec \o v]
    ELSE LET avail == caps[level] - Len(st.bufs[level]) IN
         IF NeedsFlush(Len(v), avail)
         THEN WriteAt(level, caps,
                      FlushAt(level, caps,
                              [st EXCEPT !.bufs[level] =
                                           @ \o FirstChunk(v, avail)]),
                      Subspan(v, avail))
         ELSE [st EXCEPT !.bufs[level] = @ \o v]

\* buf_ostream inner(vector, c2); buf_ostream outer(inner, c1); ...
StackOpen(caps) ==
    /\ st_caps = <<>>
    /\ ops = <<>>
    /\ opc = "idle"
    /\ st_caps' = caps
    /\ st_bufs' = [i \in 1..Len(caps) |-> <<>>]
    /\ UNCHANGED st_vec
    /\ UNCHANGED inVars
    /\ UNCHANGED <<S, pos, ops, oret, cap, buffer, opc, fctx, bytes, total,
                   available, sink_kind, sink_v, span_free, sink_ret,
                   sink_exc, wlog, nflush, span_size, entry>>

StackLive ==
    /\ st_caps /= <<>>
    /\ Len(ops) < MaxCalls
    /\ IF ops = <<>> THEN TRUE ELSE ops[Len(ops)] /= "dtor"

\* What a call on the outermost buf_ostream leaves behind.
StackAfter(op, st, r) ==
    /\ ops' = Append(ops, op)
    /\ oret' = Ok(r)
    /\ st_bufs' = st.bufs
    /\ st_vec' = st.vec
    /\ UNCHANGED st_caps
    /\ UNCHANGED inVars
    /\ UNCHANGED <<S, cap, buffer, opc, fctx, bytes, total, available,
                   sink_kind, sink_v, span_free, sink_ret, sink_exc, wlog,
                   nflush, span_size, entry>>

\* write of the next k bytes of S on the outermost buf_ostream
StackWrite(k) ==
    /\ StackLive
    /\ k \in 0..(Len(S) - pos)
    /\ pos' = pos + k
    /\ StackAfter("write",
                  WriteAt(1, st_caps, [bufs |-> st_bufs, vec |-> st_vec],
                          SubSeq(S, pos + 1, pos + k)),
                  WriteResult(k, <<>>))

\* flush on the outermost buf_ostream
StackFlush ==
    /\ StackLive
    /\ UNCHANGED pos
    /\ StackAfter("flush",
                  FlushAt(1, st_caps, [bufs |-> st_bufs, vec |-> st_vec]),
                  0)

RECURSIVE DestroyFrom(_, _, _)
\* The destructors in the order of the levels, outermost first: each one
\* runs no_throw_flush (nothing below a vector_ostream throws).
DestroyFrom(level, caps, st) ==
    IF level > Len(caps) THEN st
    ELSE DestroyFrom(level + 1, caps, FlushAt(level, caps, st))

StackDestroy ==
    /\ StackLive
    /\ UNCHANGED pos
    /\ StackAfter("dtor",
                  DestroyFrom(1, st_caps,
                              [bufs |-> st_bufs, vec |-> st_vec]),
                  0)

\* ----------------------------------------------------------- the sources

Zeros(n) == [i \in 1..n |-> 0]

\* span_istream::_read: nbytes = min(s.size(), _available.size())
span_istream_nbytes(n, avail) == Min(n, avail)

\* What a read of n bytes on the upstream source can do: deliver cnt bytes,
\* or (stdio_base_istream: ferror() after fread) throw read_error after cnt
\* bytes were stored and consumed.
SourceRead(kind, n, avail) ==
    IF kind = "span"
    THEN {[cnt |-> span_istream_nbytes(n, avail), thr |-> FALSE]}
    ELSE {[cnt |-> Min(n, avail), thr |-> FALSE]}
         \cup {[cnt |-> k, thr |-> TRUE] : k \in 0..Min(n, avail)}

\* The bytes a read of cnt bytes stores at the start of the caller's view.
SourceBytes(cnt) == SubSeq(src, span_available + 1, span_available + cnt)

\* ----------------------------------------------------------- buf_istream

EofIgnored(eof) == FALSE

\* if (_eof) return s.first(0);
EofOnEntry(eof) == eof

\* if (_available.size() <= 0): the buffer has to be refilled
NeedsRefill(len) == len <= 0

ShortFillLe(len, size) == len <= size

ShortFillNever(len, size) == FALSE

\* if (_available.size() < _buffer.size()) _eof = true;
ShortFill(len, size) == len < size

ToCopyAll(want, len) == len

\* to_copy = std::min(s.size(), _available.size())
ToCopy(want, len) == Min(want, len)

BreaksLoopAlways(eof) == TRUE

\* if (_eof) break;
BreaksLoop(eof) == eof

\* The source and the filters before any call; b = 0 when there is no
\* buf_istream.
OpenSource(kind, data, b) ==
    /\ iops = <<>>
    /\ iret = <<>>
    /\ iexc = "none"
    /\ got = <<>>
    /\ up_kind = kind
    /\ src = data
    /\ span_available = 0
    /\ ureads = <<>>
    /\ bcap = b
    /\ is_buffer = Zeros(b)
    /\ av_off = 0
    /\ av_len = 0
    /\ is_eof = FALSE
    /\ ipc = "idle"
    /\ s_left = 0
    /\ view = <<>>
    /\ ug_buffer = <<>>
    /\ ru_pc = "none"
    /\ ru_sentinel = 0
    /\ ru_v = <<>>
    /\ ru_n = 0
    /\ ru_from = 0
    /\ ru_ret = <<>>
    /\ gl_pc = "none"
    /\ gl_nl = 0
    /\ gl_s = <<>>
    /\ gl_n = 0
    /\ gl_from = 0
    /\ gl_ret = [some |-> FALSE, s |-> <<>>]
    /\ gl_out = <<>>
    /\ g_pc = "none"
    /\ g_size = 0
    /\ g_n = 0
    /\ g_from = 0
    /\ g_ret = [some |-> FALSE, val |-> <<>>]

ReadOp(n) == [op |-> "read", n |-> n, v |-> <<>>]
UngetOp(v) == [op |-> "unget", n |-> Len(v), v |-> v]

\* istream::read -> buf_istream::_read, up to the loop
ReadCall(n) ==
    /\ ipc = "idle"
    /\ bcap >= 1
    /\ Len(iops) < MaxReads
    /\ iops' = Append(iops, ReadOp(n))
    /\ iexc' = "none"
    /\ IF EofOnEntry(is_eof)
       THEN /\ iret' = <<>>
            /\ UNCHANGED <<ipc, s_left, view>>
       ELSE /\ s_left' = n
            /\ view' = <<>>
            /\ ipc' = "r_loop"
            /\ UNCHANGED iret
    /\ UNCHANGED <<got, up_kind, src, span_available, ureads, bcap, is_buffer,
                   av_off, av_len, is_eof, ug_buffer>>
    /\ UNCHANGED ruVars
    /\ UNCHANGED glVars
    /\ UNCHANGED getVars
    /\ UNCHANGED outVars

\* The copy from the buffer to the caller, with the buffer as it is after
\* the refill, if there was one.
ReadCopy(buf, off, len, eof) ==
    LET to_copy == ToCopy(s_left, len) IN
    /\ view' = view \o SubSeq(buf, off + 1, off + to_copy)
    /\ av_off' = off + to_copy
    /\ av_len' = len - to_copy
    /\ s_left' = s_left - to_copy
    /\ is_buffer' = buf
    /\ is_eof' = eof
    /\ ipc' = IF BreaksLoop(eof) THEN "r_ret" ELSE "r_loop"

\* One pass of the loop of _read: the test, the refill, the copy.
ReadLoop ==
    /\ ipc = "r_loop"
    /\ IF s_left > 0
       THEN IF NeedsRefill(av_len)
            THEN \E r \in SourceRead(up_kind, bcap,
                                     Len(src) - span_available) :
                   /\ ureads' = Append(ureads, bcap)
                   /\ span_available' = span_available + r.cnt
                   /\ IF r.thr
                      THEN \* _available = _buffer was done, the read threw
                           /\ is_buffer' = SourceBytes(r.cnt)
                                             \o Subspan(is_buffer, r.cnt)
                           /\ av_off' = 0
                           /\ av_len' = bcap
                           /\ iexc' = "read_error"
                           /\ ipc' = "idle"
                           /\ UNCHANGED <<view, s_left, is_eof>>
                      ELSE /\ ReadCopy(SourceBytes(r.cnt)
                                         \o Subspan(is_buffer, r.cnt),
                                       0, r.cnt,
                                       is_eof \/ ShortFill(r.cnt, bcap))
                           /\ UNCHANGED iexc
            ELSE /\ ReadCopy(is_buffer, av_off, av_len, is_eof)
                 /\ UNCHANGED <<ureads, span_available, iexc>>
       ELSE /\ ipc' = "r_ret"
            /\ UNCHANGED <<ureads, span_available, iexc, view, av_off, av_len,
                           s_left, is_buffer, is_eof>>
    /\ UNCHANGED <<iops, iret, got, up_kind, src, bcap, ug_buffer>>
    /\ UNCHANGED ruVars
    /\ UNCHANGED glVars
    /\ UNCHANGED getVars
    /\ UNCHANGED outVars

\* return original_span.first(bytes_delivered);
ReadReturn ==
    /\ ipc = "r_ret"
    /\ iret' = view
    /\ got' = got \o view
    /\ ipc' = "idle"
    /\ UNCHANGED <<iops, iexc, up_kind, src, span_available, ureads, bcap,
                   is_buffer, av_off, av_len, is_eof, s_left, view, ug_buffer>>
    /\ UNCHANGED ruVars
    /\ UNCHANGED glVars
    /\ UNCHANGED getVars
    /\ UNCHANGED outVars

InStep == ReadLoop \/ ReadReturn

\* ---------------------------------------------------------- span_istream

AdvancedNot(off, nbytes) == off

\* _available = _available.subspan(nbytes), as the offset into the extent
Advanced(off, nbytes) == off + nbytes

\* istream::read -> span_istream::_read, with no filter in between
SpanRead(n) ==
    /\ ipc = "idle"
    /\ bcap = 0
    /\ up_kind = "span"
    /\ Len(iops) < MaxReads
    /\ iops' = Append(iops, ReadOp(n))
    /\ LET nbytes == span_istream_nbytes(n, Len(src) - span_available) IN
         /\ iret' = SourceBytes(nbytes)
         /\ got' = got \o SourceBytes(nbytes)
         /\ span_available' = Advanced(span_available, nbytes)
    /\ UNCHANGED <<iexc, up_kind, src, ureads, bcap, is_buffer, av_off,
                   av_len, is_eof, ipc, s_left, view, ug_buffer>>
    /\ UNCHANGED ruVars
    /\ UNCHANGED glVars
    /\ UNCHANGED getVars
    /\ UNCHANGED outVars

\* -------------------------------------------------------- istream::get<T>

\* optional<T>: nullopt, or the T whose object representation is val
Nullopt == [some |-> FALSE, val |-> <<>>]
Value(val) == [some |-> TRUE, val |-> val]

GetUnchecked(bytes_read, size) == Value(bytes_read)

\* if (bytes_read.size() < sizeof(T)) return nullopt; return t;
Get(bytes_read, size) ==
    IF Len(bytes_read) < size THEN Nullopt ELSE Value(bytes_read)

\* T t; gsl::span<T> s{&t, 1};
GetCall(size) ==
    /\ g_pc \in {"none", "done"}
    /\ ipc = "idle"
    /\ g_pc' = "read"
    /\ g_size' = size
    /\ g_n' = Len(iops)
    /\ g_from' = span_available
    /\ UNCHANGED g_ret
    /\ UNCHANGED <<iops, iret, iexc, got, up_kind, src, span_available,
                   ureads, bcap, is_buffer, av_off, av_len, is_eof, ipc,
                   s_left, view, ug_buffer>>
    /\ UNCHANGED ruVars
    /\ UNCHANGED glVars
    /\ UNCHANGED outVars

\* auto bytes_read = read(gsl::as_writeable_bytes(s)), on a span_istream
GetRead ==
    /\ g_pc = "read"
    /\ Len(iops) = g_n
    /\ SpanRead(g_size)

\* the test of bytes_read.size() and the return
GetReturn ==
    /\ g_pc = "read"
    /\ Len(iops) > g_n
    /\ g_ret' = Get(iret, g_size)
    /\ g_n' = Len(iops)
    /\ g_pc' = "done"
    /\ UNCHANGED <<g_size, g_from>>
    /\ UNCHANGED <<iops, iret, iexc, got, up_kind, src, span_available,
                   ureads, bcap, is_buffer, av_off, av_len, is_eof, ipc,
                   s_left, view, ug_buffer>>
    /\ UNCHANGED ruVars
    /\ UNCHANGED glVars
    /\ UNCHANGED outVars

\* ---------------------------------------------------- istream::read_until

\* if (sentinel == *byte) return v;
SentinelSeen(v, byte, sentinel) == sentinel = byte

\* std::vector<gsl::byte> v; then into the loop
RuCall(sentinel) ==
    /\ ru_pc \in {"none", "done"}
    /\ ipc = "idle"
    /\ ru_pc' = "get"
    /\ ru_sentinel' = sentinel
    /\ ru_v' = <<>>
    /\ ru_n' = Len(iops)
    /\ ru_from' = Len(got)
    /\ UNCHANGED ru_ret
    /\ UNCHANGED <<iops, iret, iexc, got, up_kind, src, span_available,
                   ureads, bcap, is_buffer, av_off, av_len, is_eof, ipc,
                   s_left, view, ug_buffer>>
    /\ UNCHANGED glVars
    /\ UNCHANGED getVars
    /\ UNCHANGED outVars

\* auto byte = get<gsl::byte>(): read() of a span of one byte, on the
\* span_istream itself or on the buf_istream in front of it.
RuGet ==
    /\ ru_pc = "get"
    /\ ipc = "idle"
    /\ Len(iops) = ru_n
    /\ IF bcap = 0 THEN SpanRead(1) ELSE ReadCall(1)

\* if (!byte) return v; v.push_back(*byte); if (sentinel == *byte) return v;
RuCheck ==
    /\ ru_pc = "get"
    /\ ipc = "idle"
    /\ Len(iops) > ru_n
    /\ ru_n' = Len(iops)
    /\ IF Len(iret) < 1
       THEN /\ ru_ret' = ru_v
            /\ ru_pc' = "done"
            /\ UNCHANGED ru_v
       ELSE /\ ru_v' = Append(ru_v, iret[1])
            /\ IF SentinelSeen(ru_v, iret[1], ru_sentinel)
               THEN ru_ret' = Append(ru_v, iret[1]) /\ ru_pc' = "done"
               ELSE UNCHANGED <<ru_ret, ru_pc>>
    /\ UNCHANGED <<ru_sentinel, ru_from>>
    /\ UNCHANGED <<iops, iret, iexc, got, up_kind, src, span_available,
                   ureads, bcap, is_buffer, av_off, av_len, is_eof, ipc,
                   s_left, view, ug_buffer>>
    /\ UNCHANGED glVars
    /\ UNCHANGED getVars
    /\ UNCHANGED outVars

\* ------------------------------------------------------- basic_get_line

\* optional<std::basic_string<C>>: nullopt, or a string
Absent == [some |-> FALSE, s |-> <<>>]
Line(s) == [some |-> TRUE, s |-> s]

IsDelimiterNever(nl, c) == FALSE

\* if (nl == *c)
IsDelimiter(nl, c) == nl = c

\* auto c = basic_get_char<C, T>(in), about to be called for the first time
GlCall(nl) ==
    /\ gl_pc \in {"none", "done"}
    /\ ru_pc /= "get"
    /\ ipc = "idle"
    /\ gl_pc' = "first"
    /\ gl_nl' = nl
    /\ gl_s' = <<>>
    /\ gl_n' = Len(iops)
    /\ gl_from' = Len(got)
    /\ UNCHANGED <<gl_ret, gl_out>>
    /\ UNCHANGED <<iops, iret, iexc, got, up_kind, src, span_available,
                   ureads, bcap, is_buffer, av_off, av_len, is_eof, ipc,
                   s_left, view, ug_buffer>>
    /\ UNCHANGED ruVars
    /\ UNCHANGED getVars
    /\ UNCHANGED outVars

\* basic_get_char -> in.get<C>() with sizeof(C) = 1: read() of one byte on
\* the span_istream.
GlGet ==
    /\ gl_pc \in {"first", "next"}
    /\ ipc = "idle"
    /\ Len(iops) = gl_n
    /\ SpanRead(1)

\* What follows a get_char: if (!c) return nullopt / return s; then
\* if (nl == *c) return s; s += *c; and the next get_char.
GlCheck ==
    /\ gl_pc \in {"first", "next"}
    /\ ipc = "idle"
    /\ Len(iops) > gl_n
    /\ gl_n' = Len(iops)
    /\ LET ret == IF Len(iret) < 1
                  THEN IF gl_pc = "first" THEN Absent ELSE Line(gl_s)
                  ELSE Line(gl_s)
           returns == Len(iret) < 1 \/ IsDelimiter(gl_nl, iret[1])
       IN IF returns
          THEN /\ gl_ret' = ret
               /\ gl_out' = Append(gl_out, ret)
               /\ gl_pc' = "done"
               /\ UNCHANGED gl_s
          ELSE /\ gl_s' = Append(gl_s, iret[1])
               /\ gl_pc' = "next"
               /\ UNCHANGED <<gl_ret, gl_out>>
    /\ UNCHANGED <<gl_nl, gl_from>>
    /\ UNCHANGED <<iops, iret, iexc, got, up_kind, src, span_available,
                   ureads, bcap, is_buffer, av_off, av_len, is_eof, ipc,
                   s_left, view, ug_buffer>>
    /\ UNCHANGED ruVars
    /\ UNCHANGED getVars
    /\ UNCHANGED outVars

\* --------------------------------------------------------- unget_istream

Reverse(s) == [i \in 1..Len(s) |-> s[Len(s) + 1 - i]]

PushedForward(buf, v) == buf \o v

\* std::copy(s.crbegin(), s.crend(), std::back_inserter(_buffer))
Pushed(buf, v) == buf \o Reverse(v)

ServedFront(buf, to_copy) == First(buf, to_copy)

\* std::copy_n(_buffer.crbegin(), to_copy, s.begin())
Served(buf, to_copy) == [i \in 1..to_copy |-> buf[Len(buf) + 1 - i]]

ResizedKeep(buf, to_copy) == buf

\* _buffer.resize(buf_size - to_copy)
Resized(buf, to_copy) == First(buf, Len(buf) - to_copy)

UngetRewind(v) ==
    /\ ipc = "idle"
    /\ bcap = 0
    /\ Len(iops) < MaxUngetOps
    /\ iops' = Append(iops, UngetOp(v))
    /\ span_available' = IF span_available >= Len(v)
                         THEN span_available - Len(v) ELSE 0
    /\ ug_buffer' = Pushed(ug_buffer, v)
    /\ UNCHANGED <<iret, iexc, got, up_kind, src, ureads,
                   bcap, is_buffer, av_off, av_len, is_eof, ipc, s_left, view>>
    /\ UNCHANGED ruVars
    /\ UNCHANGED glVars
    /\ UNCHANGED getVars
    /\ UNCHANGED outVars

\* unget_istream::unget
Unget(v) ==
    /\ ipc = "idle"
    /\ bcap = 0
    /\ Len(iops) < MaxUngetOps
    /\ iops' = Append(iops, UngetOp(v))
    /\ ug_buffer' = Pushed(ug_buffer, v)
    /\ UNCHANGED <<iret, iexc, got, up_kind, src, span_available, ureads,
                   bcap, is_buffer, av_off, av_len, is_eof, ipc, s_left, view>>
    /\ UNCHANGED ruVars
    /\ UNCHANGED glVars
    /\ UNCHANGED getVars
    /\ UNCHANGED outVars

\* istream::read -> unget_istream::_read over a span_istream
UngetRead(n) ==
    /\ ipc = "idle"
    /\ bcap = 0
    /\ Len(iops) < MaxUngetOps
    /\ iops' = Append(iops, ReadOp(n))
    /\ LET to_copy == IF ug_buffer /= <<>>
                      THEN Min(n, Len(ug_buffer)) ELSE 0
           rest == n - to_copy
           cnt == span_istream_nbytes(rest, Len(src) - span_available)
           out == Served(ug_buffer, to_copy)
                    \o (IF rest > 0 THEN SourceBytes(cnt) ELSE <<>>)
       IN /\ ug_buffer' = Resized(ug_buffer, to_copy)
          /\ ureads' = IF rest > 0 THEN Append(ureads, rest) ELSE ureads
          /\ span_available' = IF rest > 0 THEN span_available + cnt
                               ELSE span_available
          /\ iret' = out
          /\ got' = got \o out
    /\ UNCHANGED <<iexc, up_kind, src, bcap, is_buffer, av_off, av_len,
                   is_eof, ipc, s_left, view>>
    /\ UNCHANGED ruVars
    /\ UNCHANGED glVars
    /\ UNCHANGED getVars
    /\ UNCHANGED outVars

\* ------------------------------------------------------- specifications

\* buf_ostream over any of the three sinks, any input, any split into calls.
InitOut ==
    \E kind \in {"vector", "span", "stdio"}, c \in 1..MaxCap,
       free \in 0..MaxSpan, input \in Inputs :
        /\ kind /= "span" => free = 0
        /\ Construct(kind, c, free, input)
        /\ OpenSource("span", <<>>, 0)

NextOut ==
    \/ \E k \in 0..MaxLen : WriteCall(k)
    \/ FlushCall
    \/ Destroy
    \/ OutStep

SpecOut == InitOut /\ [][NextOut]_vars

\* buf_istream over a source, any content, any buffer size, any requests.
InitIn ==
    \E kind \in {"span", "stdio"}, data \in Inputs, b \in 1..MaxBuf :
        /\ Construct("vector", 1, 0, <<>>)
        /\ OpenSource(kind, data, b)

NextIn ==
    \/ \E n \in 0..MaxReq : ReadCall(n)
    \/ InStep

SpecIn == InitIn /\ [][NextIn]_vars

\* unget_istream over a span_istream holding a prefix of the test's bytes.
TestSource == <<1, 2, 3>>
UngetSources == {First(TestSource, k) : k \in 0..Len(TestSource)}
UngetViews == {<<>>, <<170>>, <<187>>, <<170, 187>>, <<187, 170>>}

InitUnget ==
    \E data \in UngetSources :
        /\ Construct("vector", 1, 0, <<>>)
        /\ OpenSource("span", data, 0)

NextUnget ==
    \/ \E n \in 0..MaxReq : UngetRead(n)
    \/ \E v \in UngetViews : Unget(v)

SpecUnget == InitUnget /\ [][NextUnget]_vars

\* One write of any length through a buf_ostream of any capacity up to the
\* test's, then a flush or the destructor.
InitChunk ==
    \E c \in 1..TestCap :
        /\ Construct("vector", c, 0, LongInput)
        /\ OpenSource("span", <<>>, 0)

NextChunk ==
    \/ ops = <<>> /\ \E k \in 0..LongLen : WriteCall(k)
    \/ Len(ops) = 1 /\ FlushCall
    \/ Len(ops) = 1 /\ Destroy
    \/ OutStep

SpecChunk == InitChunk /\ [][NextChunk]_vars

\* The round trip: S goes through a buf_ostream into a vector_ostream; once
\* the buf_ostream is flushed or destroyed, the vector is read back through a
\* buf_istream over a span_istream.
OpenReader(b) ==
    /\ bcap = 0
    /\ pos = Len(S)
    /\ \/ opc = "dead"
       \/ opc = "idle" /\ ops /= <<>> /\ ops[Len(ops)] = "flush"
                       /\ oret.exc = "none"
    /\ src' = sink_v
    /\ bcap' = b
    /\ is_buffer' = Zeros(b)
    /\ UNCHANGED <<iops, iret, iexc, got, up_kind, span_available, ureads,
                   av_off, av_len, is_eof, ipc, s_left, view, ug_buffer>>
    /\ UNCHANGED ruVars
    /\ UNCHANGED glVars
    /\ UNCHANGED getVars
    /\ UNCHANGED outVars

InitRT ==
    \E c \in 1..MaxCap, input \in Inputs :
        /\ Construct("vector", c, 0, input)
        /\ OpenSource("span", <<>>, 0)

NextRT ==
    \/ bcap = 0 /\ \E k \in 0..MaxLen : WriteCall(k)
    \/ bcap = 0 /\ FlushCall
    \/ bcap = 0 /\ Destroy
    \/ OutStep
    \/ \E b \in 1..MaxBuf : OpenReader(b)
    \/ \E n \in 1..MaxReq : ReadCall(n)
    \/ InStep

SpecRT == InitRT /\ [][NextRT]_vars

\* A span_istream over any extent, read directly with any requests.
InitSpan ==
    \E data \in Inputs \cup UngetSources :
        /\ Construct("vector", 1, 0, <<>>)
        /\ OpenSource("span", data, 0)

NextSpan == \E n \in 0..MaxReq : SpanRead(n)

SpecSpan == InitSpan /\ [][NextSpan]_vars

\* A span_ostream over a span of any size, written directly.
InitSpanOut ==
    \E free \in 0..MaxSpan, input \in Inputs :
        /\ Construct("span", 0, free, input)
        /\ OpenSource("span", <<>>, 0)

NextSpanOut == \E k \in 0..MaxLen : SpanWrite(k)

SpecSpanOut == InitSpanOut /\ [][NextSpanOut]_vars

\* read_until on a span_istream (b = 0) or on a buf_istream of size b over
\* one, with plain reads before and after.
InitUntil ==
    \E data \in Inputs, b \in 0..MaxBuf :
        /\ Construct("vector", 1, 0, <<>>)
        /\ OpenSource("span", data, b)

NextUntil ==
    \/ \E sentinel \in Byte : RuCall(sentinel)
    \/ RuGet
    \/ RuCheck
    \/ ru_pc /= "get" /\ \E n \in 1..MaxReq : ReadCall(n)
    \/ ru_pc /= "get" /\ \E n \in 1..MaxReq : SpanRead(n)
    \/ InStep

SpecUntil == InitUntil /\ [][NextUntil]_vars

\* get_line on a span_istream, any content, either byte as the delimiter.
InitLine ==
    \E data \in Inputs :
        /\ Construct("vector", 1, 0, <<>>)
        /\ OpenSource("span", data, 0)

NextLine ==
    \/ \E nl \in Byte : GlCall(nl)
    \/ GlGet
    \/ GlCheck

SpecLine == InitLine /\ [][NextLine]_vars

\* The three sources side by side: a buf_istream of size b >= 1 over a span
\* or stdio source, or (b = 0) a span_istream read directly and through an
\* unget_istream.
InitReads ==
    \E kind \in {"span", "stdio"}, data \in UngetSources, b \in 0..MaxBuf :
        /\ b = 0 => kind = "span"
        /\ Construct("vector", 1, 0, <<>>)
        /\ OpenSource(kind, data, b)

NextReads ==
    \/ \E n \in 0..MaxReq : ReadCall(n)
    \/ InStep
    \/ \E n \in 0..MaxReq : SpanRead(n)
    \/ \E n \in 0..MaxReq : UngetRead(n)
    \/ \E v \in UngetViews : Unget(v)

SpecReads == InitReads /\ [][NextReads]_vars

\* Two buf_ostreams of any capacities on a vector_ostream, any input, any
\* split into writes.
InitStack ==
    \E input \in Inputs :
        /\ Construct("vector", 1, 0, input)
        /\ OpenSource("span", <<>>, 0)

NextStack ==
    \/ \E c1 \in 1..MaxCap, c2 \in 1..MaxCap : StackOpen(<<c1, c2>>)
    \/ \E k \in 0..MaxLen : StackWrite(k)
    \/ StackFlush
    \/ StackDestroy

SpecStack == InitStack /\ [][NextStack]_vars

\* Calls that run to their end: either a buf_ostream over a sink that does
\* not throw, written to (b = 0), or a buf_istream of size b >= 1 over a
\* span_istream, read from.  A call that has started keeps running: the
\* steps of _write and _read are taken as long as they are enabled.
InitTerm ==
    \E kind \in {"vector", "span"}, c \in 1..MaxCap, free \in 0..MaxSpan,
       data \in Inputs, b \in 0..MaxBuf :
        /\ kind /= "span" => free = 0
        /\ b >= 1 => (kind = "vector" /\ c = 1)
        /\ Construct(kind, c, free, IF b = 0 THEN data ELSE <<>>)
        /\ OpenSource("span", IF b = 0 THEN <<>> ELSE data, b)

NextTerm ==
    \/ bcap = 0 /\ \E k \in 0..MaxLen : WriteCall(k)
    \/ OutStep
    \/ \E n \in 0..MaxReq : ReadCall(n)
    \/ InStep

SpecTerm ==
    /\ InitTerm
    /\ [][NextTerm]_vars
    /\ WF_vars(OutStep)
    /\ WF_vars(InStep)

\* get<T> for sizes 1..MaxReq on a span_istream, with plain reads between.
InitGet ==
    \E data \in Inputs \cup UngetSources :
        /\ Construct("vector", 1, 0, <<>>)
        /\ OpenSource("span", data, 0)

NextGet ==
    \/ \E size \in 1..MaxReq : GetCall(size)
    \/ GetRead
    \/ GetReturn
    \/ g_pc /= "read" /\ \E n \in 1..MaxReq : SpanRead(n)

SpecGet == InitGet /\ [][NextGet]_vars

\* ------------------------------------------------------------ the claims

Last(s) == s[Len(s)]

\* The reader of the round trip has read until a read returned nothing.
ReadToEnd ==
    /\ bcap >= 1
    /\ ipc = "idle"
    /\ iexc = "none"
    /\ iops /= <<>>
    /\ iret = <<>>

\* C1: S written through a buf_ostream into a vector_ostream, in any split
\* into write calls, then flushed or destroyed, and read back through a
\* buf_istream over a span_istream with any request sizes until a read
\* returns an empty prefix, comes back as exactly S.
C1_RoundTrip == ReadToEnd => got = S

TestRun == <<ReadOp(1), UngetOp(<<170, 187>>), ReadOp(3)>>

\* C2, as stated: over the source [1,2,3], a read of one byte returns [1],
\* and after unget([0xAA,0xBB]) a read of three bytes returns
\* [0xBB,0xAA,0x02].
C2_PushbackReversed ==
    /\ (src = TestSource /\ iops = <<ReadOp(1)>>) => iret = <<1>>
    /\ (src = TestSource /\ iops = TestRun) => iret = <<187, 170, 2>>

\* C2, amended: over the source [1,2,3], a read of one byte returns [1], and
\* after unget([0xAA,0xBB]) a read of three bytes returns [0xAA,0xBB,0x02]:
\* the bytes of one unget come back in the order they were given, before
\* the bytes of upstream.
C2_PushbackOrdering ==
    /\ (src = TestSource /\ iops = <<ReadOp(1)>>) => iret = <<1>>
    /\ (src = TestSource /\ iops = TestRun) => iret = <<170, 187, 2>>

C2_Witness ==
    /\ src = TestSource
    /\ iops = TestRun
    /\ iret = <<170, 187, 2>>
    /\ ug_buffer = <<>>

\* C3: once _eof is set, no step calls the upstream source again, the flag
\* stays set, and every read call made from then on returns at once with an
\* empty prefix.
C3_ExhaustionIdempotent ==
    [][is_eof =>
        /\ is_eof'
        /\ ureads' = ureads
        /\ ipc = "idle" => (ipc' = "idle" /\ (iops' /= iops => iret' = <<>>))
      ]_vars

C3_Witness ==
    /\ is_eof
    /\ ipc = "idle"
    /\ Len(iops) = 2
    /\ iops[1].n >= 1
    /\ iops[2].n >= 1
    /\ Len(ureads) = 1
    /\ iret = <<>>

\* What the requests reqs[i..] return, concatenated, when made on a
\* span_istream with avail bytes of data left from offset off on.
RECURSIVE DirectReads(_, _, _, _)
DirectReads(data, off, reqs, i) ==
    IF i > Len(reqs)
    THEN <<>>
    ELSE LET nbytes == span_istream_nbytes(reqs[i].n, Len(data) - off)
         IN SubSeq(data, off + 1, off + nbytes)
              \o DirectReads(data, off + nbytes, reqs, i + 1)

\* C4: over a span_istream, the prefixes returned by the reads of a
\* buf_istream, concatenated, are what the same reads return from the
\* span_istream itself.
C4_Transparent ==
    (bcap >= 1 /\ up_kind = "span" /\ ipc = "idle")
        => got = DirectReads(src, 0, iops, 1)

\* floor((n-1)/c), 0 when n <= c
FullChunks(n, c) == IF n <= c THEN 0 ELSE (n - 1) \div c

\* C5: a single write of n bytes to an empty buf_ostream of capacity c makes
\* floor((n-1)/c) downstream writes of c bytes each (none when n <= c) and
\* leaves the other n - c*floor((n-1)/c) bytes buffered; the flush or the
\* destructor that follows writes those in one more downstream write.
C5_FlushBoundaries ==
    LET k == FullChunks(pos, cap)
        rest == pos - cap * k
    IN /\ (ops = <<"write">> /\ opc = "idle") =>
            /\ wlog = [i \in 1..k |-> cap]
            /\ Len(buffer) = rest
       /\ (Len(ops) = 2 /\ ops[1] = "write" /\ ops[2] \in {"flush", "dtor"}
            /\ opc \in {"idle", "dead"}) =>
            /\ wlog = [i \in 1..k |-> cap]
                        \o (IF rest > 0 THEN <<rest>> ELSE <<>>)
            /\ sink_v = First(S, pos)

C5_Witness ==
    /\ cap = TestCap
    /\ pos = 25
    /\ ops = <<"write", "flush">>
    /\ opc = "idle"
    /\ wlog = <<10, 10, 5>>

\* C6: a failure the sink raises while the destructor flushes never leaves
\* the destructor: the destructor ends normally, and after a failed write
\* the content is still in the buffer that is destroyed, offered once.
C6_DestructorSafety ==
    /\ opc = "dead" => oret.exc = "none"
    /\ (fctx = "dtor" /\ sink_exc /= "none") =>
            (opc = "dead" /\ oret.exc = "none")
    /\ (opc = "dead" /\ sink_exc = "write_error") =>
            (buffer /= <<>> /\ wlog /= <<>> /\ Last(wlog) = Len(buffer))

C6_Witness ==
    /\ opc = "dead"
    /\ sink_exc = "write_error"
    /\ sink_ret = 0
    /\ buffer /= <<>>
    /\ oret.exc = "none"

\* C7: a failure the sink raises during an explicit flush() or during the
\* flush inside write() ends that call with that failure; a sink failure is
\* discarded only when the destructor runs the flush.
C7_FailuresPropagate ==
    sink_exc /= "none" =>
        IF fctx \in {"write", "flush"}
        THEN opc = "idle" /\ oret.exc = sink_exc
        ELSE fctx = "dtor" /\ opc = "dead"

C7_Witness ==
    /\ fctx = "write"
    /\ sink_exc = "flush_error"
    /\ opc = "idle"
    /\ oret.exc = "flush_error"

\* C8: the buffer is cleared only of bytes the sink accepted: when
\* _buffer.clear() runs, the sink's write has accepted the whole buffer.
C8_PartialAcceptance == opc = "fl_clear" => sink_ret = Len(buffer)

\* C9: over a vector_ostream, after any write calls and the destructor,
\* with no explicit flush, the vector holds all the bytes written, in order.
C9_Transparent ==
    (sink_kind = "vector" /\ opc = "dead"
        /\ \A i \in 1..Len(ops) : ops[i] /= "flush")
        => sink_v = First(S, pos)

C9_Witness ==
    /\ sink_kind = "vector"
    /\ opc = "dead"
    /\ ops = <<"write", "write", "dtor">>
    /\ cap = 2
    /\ pos = 3
    /\ Len(wlog) = 2
    /\ sink_v = S

\* C10: in every state, also inside a write call and after a failed flush,
\* the buffer holds between 0 and capacity bytes.
C10_FillWithinCapacity == Len(buffer) >= 0 /\ Len(buffer) <= cap

C10_Witness ==
    /\ opc = "idle"
    /\ fctx = "write"
    /\ oret.exc = "write_error"
    /\ Len(buffer) = cap
    /\ Len(ops) >= 2

\* The last call made on the buf_ostream was a write and returned normally.
WriteReturned ==
    /\ opc = "idle"
    /\ ops /= <<>>
    /\ Last(ops) = "write"
    /\ oret.exc = "none"

\* C11: a write call that returns normally returns the length of the view
\* it was given, whatever the fill, the capacity and the number of
\* downstream writes it made.
C11_WriteReturnsLength == WriteReturned => oret.val = entry.asked

C11_Witness ==
    /\ WriteReturned
    /\ cap = 1
    /\ entry.asked = 3
    /\ Len(wlog) = entry.nwrites + 2
    /\ oret.val = 3

\* What the reads among calls[i..] return, concatenated, from a stream that
\* has the bytes of front ahead of the bytes of data from offset off on: an
\* unget puts its bytes, in the order given, ahead of everything else.
RECURSIVE LogicalReads(_, _, _, _, _)
LogicalReads(front, data, off, calls, i) ==
    IF i > Len(calls)
    THEN <<>>
    ELSE IF calls[i].op = "unget"
    THEN LogicalReads(calls[i].v \o front, data, off, calls, i + 1)
    ELSE LET k == Min(calls[i].n, Len(front))
             m == Min(calls[i].n - k, Len(data) - off)
         IN First(front, k) \o SubSeq(data, off + 1, off + m)
              \o LogicalReads(Subspan(front, k), data, off + m, calls, i + 1)

\* C12: ungets compose last-in-first-out: the reads deliver the bytes of the
\* last unget first, each ungot value in the order it was given, then those
\* of the ungets before it, and only then the upstream bytes, from where
\* upstream was left.
C12_UngetLifo == bcap = 0 => got = LogicalReads(<<>>, src, 0, iops, 1)

C12_Witness ==
    /\ src = TestSource
    /\ iops = <<UngetOp(<<170, 187>>), UngetOp(<<187, 170>>),
                ReadOp(3), ReadOp(3)>>
    /\ got = <<187, 170, 170, 187, 1, 2>>

\* C13: a read of n bytes on an unget_istream takes k = min(n, pushback
\* size) bytes from the top of the pushback buffer and removes exactly
\* those; it calls upstream read once, for n - k bytes, exactly when
\* n - k > 0, and not at all otherwise; the prefix returned has the length
\* of both parts together.
C13_UngetReadProtocol ==
    [][(iops' /= iops /\ Last(iops').op = "read") =>
        LET n == Last(iops').n
            k == Min(n, Len(ug_buffer))
            m == Min(n - k, Len(src) - span_available)
        IN /\ ug_buffer' = First(ug_buffer, Len(ug_buffer) - k)
           /\ First(iret', k)
                = [i \in 1..k |-> ug_buffer[Len(ug_buffer) + 1 - i]]
           /\ ureads' = IF n - k > 0 THEN Append(ureads, n - k) ELSE ureads
           /\ Len(iret') = k + m
           /\ span_available' = span_available + m
      ]_vars

C13_Witness ==
    /\ src = TestSource
    /\ iops = <<UngetOp(<<170>>), ReadOp(3)>>
    /\ ureads = <<2>>
    /\ iret = <<170, 1, 2>>
    /\ ug_buffer = <<>>

\* C14: unget makes no upstream read and leaves the upstream position and
\* everything delivered so far as they are; it is possible on a fresh
\* unget_istream, before any read and with bytes the source never held, and
\* the read that follows serves those bytes ahead of the upstream bytes.
C14_UngetFrame ==
    /\ [][(iops' /= iops /\ Last(iops').op = "unget") =>
            /\ ureads' = ureads
            /\ span_available' = span_available
            /\ got' = got
            /\ iret' = iret
         ]_vars
    /\ []((bcap = 0 /\ iops = <<>>) => \A v \in UngetViews : ENABLED Unget(v))
    /\ []((bcap = 0 /\ Len(iops) = 2 /\ iops[1].op = "unget"
             /\ iops[2].op = "read") =>
            iret = First(iops[1].v \o src,
                         Min(iops[2].n, Len(iops[1].v) + Len(src))))

C14_Witness ==
    /\ src = TestSource
    /\ iops = <<UngetOp(<<170, 187>>), ReadOp(3)>>
    /\ iret = <<170, 187, 1>>
    /\ span_available = 1
    /\ ureads = <<1>>

\* C15: every downstream write a buf_ostream of capacity c issues carries
\* at least 1 and at most c bytes, and a downstream write issued by the
\* flush inside a write call carries exactly c bytes.
C15_DownstreamWriteSizes ==
    [][wlog' /= wlog =>
         /\ Len(wlog') = Len(wlog) + 1
         /\ Last(wlog') \in 1..cap
         /\ fctx = "write" => Last(wlog') = cap
      ]_vars

\* A write of 3 bytes into an empty buffer of 2: the overflow write carries
\* 2 bytes, the explicit flush that follows carries the 1 left over.
C15_Witness ==
    /\ cap = 2
    /\ sink_kind = "vector"
    /\ ops = <<"write", "flush">>
    /\ wlog = <<2, 1>>
    /\ Len(sink_v) = 3
    /\ opc = "idle"

\* C16: a write of exactly c - f bytes into a buf_ostream that holds f of c
\* bytes fills the buffer and causes no downstream write or flush; a write
\* of zero bytes causes nothing at all; the full buffer goes downstream, as
\* one write of c bytes, only in a later write of at least one byte, in an
\* explicit flush or in the destructor, and a write of at least one byte
\* into a full buffer starts with that downstream write.
C16_ExactFill ==
    /\ []((WriteReturned /\ entry.asked = cap - entry.fill) =>
            /\ Len(buffer) = cap
            /\ Len(wlog) = entry.nwrites
            /\ nflush = entry.nflush)
    /\ []((WriteReturned /\ entry.asked = 0) =>
            /\ Len(buffer) = entry.fill
            /\ Len(wlog) = entry.nwrites
            /\ nflush = entry.nflush)
    /\ [][(Len(buffer) = cap /\ wlog' /= wlog) =>
            /\ Last(wlog') = cap
            /\ \/ Last(ops) \in {"flush", "dtor"}
               \/ Last(ops) = "write" /\ entry.asked >= 1
         ]_vars
    /\ []((WriteReturned /\ entry.fill = cap /\ entry.asked >= 1) =>
            /\ Len(wlog) > entry.nwrites
            /\ wlog[entry.nwrites + 1] = cap)

\* write(1) then write(2) on a buffer of 3: full, nothing sent downstream.
C16_Witness ==
    /\ WriteReturned
    /\ cap = 3
    /\ ops = <<"write", "write">>
    /\ entry.fill = 1
    /\ entry.asked = 2
    /\ Len(buffer) = 3
    /\ wlog = <<>>
    /\ nflush = 0

FlushReturned ==
    /\ opc = "idle"
    /\ ops /= <<>>
    /\ Last(ops) = "flush"
    /\ oret.exc = "none"

\* The downstream writes an explicit flush() entered with entry.fill bytes
\* in the buffer has to issue: one of entry.fill bytes, or none.
FlushWrites == IF entry.fill > 0 THEN <<entry.fill>> ELSE <<>>

\* C17: an explicit flush() that succeeds has issued exactly one downstream
\* write, of the whole buffer, if the buffer was non-empty and none if it
\* was empty, leaves the buffer empty and has called the downstream flush
\* exactly once; that downstream flush comes after the write and after the
\* buffer is cleared.
C17_ExplicitFlush ==
    /\ [](FlushReturned =>
            /\ buffer = <<>>
            /\ Len(wlog) = entry.nwrites + Len(FlushWrites)
            /\ SubSeq(wlog, entry.nwrites + 1, Len(wlog)) = FlushWrites
            /\ nflush = entry.nflush + 1)
    /\ [][(fctx = "flush" /\ nflush' /= nflush) =>
            /\ nflush = entry.nflush
            /\ nflush' = nflush + 1
            /\ wlog' = wlog
            /\ SubSeq(wlog, entry.nwrites + 1, Len(wlog)) = FlushWrites
            /\ buffer = <<>>
         ]_vars

\* write(2) then flush() on a buffer of 3 over a vector: one write of 2.
C17_Witness ==
    /\ FlushReturned
    /\ cap = 3
    /\ sink_kind = "vector"
    /\ ops = <<"write", "flush">>
    /\ entry.fill = 2
    /\ wlog = <<2>>
    /\ Len(sink_v) = 2
    /\ nflush = 1
    /\ buffer = <<>>

\* The last read returned fewer bytes than it asked for.
ShortReturn == iops /= <<>> /\ Len(iret) < Last(iops).n

\* C18: a span_istream returns fewer bytes than requested only when fewer
\* remain; a short return leaves it exhausted for good and an exhausted
\* span_istream returns an empty prefix to every read, so a non-empty short
\* prefix comes at most once; what the reads delivered so far is a prefix of
\* the extent, each read continuing where the one before stopped.
C18_SpanShortReads ==
    /\ [][iops' /= iops =>
            LET n == Last(iops').n
                remain == Len(src) - Len(got)
            IN /\ Len(iret') <= n
               /\ Len(iret') < n => remain < n
               /\ Len(iret') < n => Len(got') = Len(src)
               /\ remain = 0 => iret' = <<>>
               /\ Len(got) + Len(iret') <= Len(src)
               /\ iret' = SubSeq(src, Len(got) + 1, Len(got) + Len(iret'))
               /\ got' = got \o iret'
         ]_vars
    /\ [](Len(got) <= Len(src) /\ got = First(src, Len(got)))
    /\ [](ShortReturn => [](got = src))

\* Three reads of 2 over an extent of 3: 2 bytes, 1 byte (short), none.
C18_Witness ==
    /\ src = TestSource
    /\ iops = <<ReadOp(2), ReadOp(2), ReadOp(2)>>
    /\ iret = <<>>
    /\ got = TestSource
    /\ span_available = 3

\* C19: a span_ostream write of a view accepts min(|view|, free) bytes,
\* appends that prefix of the view to what the span already holds, returns
\* that count and does not throw; with nothing free a write returns 0 and
\* changes nothing; the bytes accepted so far and the size of unused() add
\* up to the size of the span given to the constructor.
C19_SpanWrite ==
    /\ [][ops' /= ops =>
            LET k == entry'.asked
                v == SubSeq(S, pos + 1, pos + k)
                acc == Min(k, span_free)
            IN /\ oret' = Ok(acc)
               /\ sink_exc' = "none"
               /\ sink_v' = sink_v \o First(v, acc)
               /\ span_free' = span_free - acc
               /\ span_free = 0 =>
                    oret'.val = 0 /\ sink_v' = sink_v /\ span_free' = 0
         ]_vars
    /\ [](span_free >= 0 /\ Len(sink_v) + span_free = span_size)

\* A span of 1: a write of 2 bytes accepts 1, the next write of 1 returns 0.
C19_Witness ==
    /\ cap = 0
    /\ span_size = 1
    /\ ops = <<"write", "write">>
    /\ wlog = <<2, 1>>
    /\ oret = Ok(0)
    /\ sink_v = First(S, 1)
    /\ span_free = 0

\* The bytes of rest up to and including the first sentinel, or all of rest.
UpToSentinel(rest, sentinel) ==
    LET at == {i \in 1..Len(rest) : rest[i] = sentinel} IN
    IF at = {} THEN rest
    ELSE First(rest, CHOOSE i \in at : \A j \in at : i <= j)

\* C20: read_until(sentinel) returns the bytes of the source from the
\* position of the caller up to and including the first sentinel, or all
\* that are left when there is no sentinel, and the read that follows it
\* starts with the byte after the bytes returned.
C20_ReadUntil ==
    ru_pc = "done" =>
        /\ ru_ret = UpToSentinel(Subspan(src, ru_from), ru_sentinel)
        /\ (ipc = "idle" /\ Len(iops) = ru_n + 1) =>
             iret = First(Subspan(src, ru_from + Len(ru_ret)),
                          Min(Last(iops).n,
                              Len(src) - ru_from - Len(ru_ret)))

\* Where the first delimiter is in rest, 0 if there is none.
DelimiterAt(rest, nl) ==
    LET at == {i \in 1..Len(rest) : rest[i] = nl} IN
    IF at = {} THEN 0 ELSE CHOOSE i \in at : \A j \in at : i <= j

\* The line get_line has to return from rest, and what it has to consume.
LineOf(rest, nl) ==
    IF rest = <<>> THEN Absent
    ELSE IF DelimiterAt(rest, nl) = 0 THEN Line(rest)
    ELSE Line(First(rest, DelimiterAt(rest, nl) - 1))

ConsumedBy(rest, nl) ==
    IF DelimiterAt(rest, nl) = 0 THEN Len(rest) ELSE DelimiterAt(rest, nl)

\* C21: get_line returns the bytes from the position of the caller up to
\* the next delimiter, without it, and consumes them and the delimiter, so
\* the next call starts behind it; with no delimiter left it returns the
\* rest; a delimiter read first gives an empty line; the result is absent
\* just when nothing was left at the call.
C21_GetLine ==
    gl_pc = "done" =>
        LET rest == Subspan(src, gl_from) IN
        /\ gl_from <= Len(src)
        /\ gl_ret = LineOf(rest, gl_nl)
        /\ gl_ret = Last(gl_out)
        /\ Len(got) = gl_from + ConsumedBy(rest, gl_nl)
        /\ span_available = Len(got)
        /\ gl_ret = Absent <=> rest = <<>>

\* Two calls over <<1, 0>> with delimiter 1: an empty line, then the rest,
\* which has no delimiter behind it.
C21_Witness ==
    /\ gl_pc = "done"
    /\ gl_nl = 1
    /\ src = <<1, 0>>
    /\ gl_out = <<Line(<<>>), Line(<<0>>)>>
    /\ got = src

\* The last call was a read and it has returned a prefix.
ReadReturned ==
    /\ ipc = "idle"
    /\ iops /= <<>>
    /\ Last(iops).op = "read"
    /\ iexc = "none"

\* C22: a read on a span_istream, a buf_istream or an unget_istream returns
\* between 0 and the requested number of bytes; the caller receives exactly
\* the returned prefix, and while a buf_istream read is in progress the
\* bytes copied so far and the room left add up to the requested length.
C22_PrefixLength ==
    /\ [](ReadReturned => Len(iret) \in 0..Last(iops).n)
    /\ []((ipc /= "idle") => Len(view) + s_left = Last(iops).n)
    /\ [][(iops' /= iops /\ Last(iops').op = "read" /\ ipc' = "idle")
             => got' = got \o iret']_vars
    /\ [][(ipc /= "idle" /\ ipc' = "idle" /\ iexc' = "none")
             => (iret' = view /\ got' = got \o iret')]_vars

\* A buf_istream of size 2 asked for 3 bytes of <<1, 2, 3>> returns all 3;
\* asked again it returns none.
C22_Witness ==
    /\ ReadReturned
    /\ bcap = 2
    /\ src = TestSource
    /\ iops = <<ReadOp(3), ReadOp(2)>>
    /\ got = TestSource
    /\ iret = <<>>

\* C23: with a buf_ostream stacked on a buf_ostream stacked on a
\* vector_ostream, once the outer one has been flushed, or both have been
\* destroyed outer first, the vector holds exactly the bytes written so far,
\* in order, as it would had they been written to the vector_ostream
\* directly; before that it holds a prefix of them and the two buffers hold
\* the rest, the inner one's bytes first.
C23_StackedFilters ==
    Len(st_caps) = 2 =>
        /\ st_vec \o st_bufs[2] \o st_bufs[1] = First(S, pos)
        /\ Len(st_bufs[1]) <= st_caps[1]
        /\ Len(st_bufs[2]) <= st_caps[2]
        /\ (ops /= <<>> /\ Last(ops) \in {"flush", "dtor"}) =>
             /\ st_vec = First(S, pos)
             /\ st_bufs = <<<<>>, <<>>>>

\* 3 bytes in one write through capacities 2 over 3, then a flush.
C23_Witness ==
    /\ st_caps = <<2, 3>>
    /\ Len(S) = 3
    /\ ops = <<"write", "flush">>
    /\ pos = 3
    /\ st_vec = S

\* C24: a buf_istream read that returns fewer bytes than requested returns
\* with the exhausted flag set; the loop of _read is left only with the
\* caller's view full or with the flag set.
C24_ShortOnlyWhenExhausted ==
    /\ []((ReadReturned /\ bcap >= 1 /\ Len(iret) < Last(iops).n) => is_eof)
    /\ [][(ipc = "r_loop" /\ ipc' = "r_ret") => (s_left' = 0 \/ is_eof')]_vars

\* A buffer of 1 refilled three times for one read of 3 bytes, flag clear.
C24_Witness ==
    /\ ReadReturned
    /\ bcap = 1
    /\ Len(src) = 3
    /\ iops = <<ReadOp(3)>>
    /\ iret = src
    /\ ureads = <<1, 1, 1>>
    /\ ~is_eof

\* C25: buf_istream issues an upstream read only with an empty unconsumed
\* sub-view, the exhausted flag clear and room left in the caller's view;
\* the read asks for the whole buffer; the flag changes only there, and is
\* set just when the read returns fewer bytes than the buffer holds; so
\* over a span_istream whose length is a multiple of the buffer size the
\* flag is set by one more upstream read than the bytes need.
C25_RefillProtocol ==
    /\ [][ureads' /= ureads =>
            /\ av_len = 0
            /\ ~is_eof
            /\ s_left > 0
            /\ ureads' = Append(ureads, bcap)
            /\ iexc' = "none" =>
                 (is_eof' <=> span_available' - span_available < bcap)
            /\ iexc' /= "none" => ~is_eof'
         ]_vars
    /\ [][is_eof' /= is_eof => (ureads' /= ureads /\ is_eof')]_vars
    /\ []((up_kind = "span" /\ is_eof /\ Len(src) % bcap = 0) =>
            /\ Len(ureads) = (Len(src) \div bcap) + 1
            /\ span_available = Len(src))

\* 2 bytes behind a buffer of 1: the third upstream read returns nothing
\* and sets the flag.
C25_Witness ==
    /\ ReadReturned
    /\ up_kind = "span"
    /\ bcap = 1
    /\ Len(src) = 2
    /\ iops = <<ReadOp(3)>>
    /\ iret = src
    /\ ureads = <<1, 1, 1>>
    /\ is_eof

RECURSIVE Sum(_)
Sum(s) == IF s = <<>> THEN 0 ELSE s[1] + Sum(Subspan(s, 1))

\* The sink cannot fail and has so far accepted every view in full, so
\* sink_v is all the bytes passed to downstream writes, in order.
FullyAccepted ==
    /\ sink_kind \in {"vector", "span"}
    /\ Len(sink_v) = Sum(wlog)

\* How many bytes of S the buf_ostream has taken over: those of the calls
\* that returned and, of a write in progress, what is no longer in bytes
\* (inside the flush of the loop, bytes still holds the copied chunk of
\* available bytes).
Consumed ==
    IF opc = "w_loop" THEN pos - Len(bytes)
    ELSE IF fctx = "write" /\ opc \in {"fl_write", "fl_clear", "fl_flush",
                                       "w_sub"}
         THEN pos - Len(bytes) + available
         ELSE pos

\* C26, as claimed: in every reachable state with no downstream failure and
\* every downstream write accepted in full, the bytes passed downstream
\* followed by the buffer are the bytes taken over from the caller.
C26_ByteConservation ==
    FullyAccepted => sink_v \o buffer = First(S, Consumed)

\* C26, amended: the same, outside the window of non_virtual_flush between
\* _sink.write(_buffer) and _buffer.clear(), where the buffered bytes are
\* both downstream and still in the buffer.
C26_ConservationOutsideFlush ==
    /\ (FullyAccepted /\ opc /= "fl_clear") =>
          sink_v \o buffer = First(S, Consumed)
    /\ (FullyAccepted /\ opc = "fl_clear") =>
          /\ sink_v = First(S, Consumed)
          /\ buffer = SubSeq(sink_v, Len(sink_v) - Len(buffer) + 1,
                             Len(sink_v))

\* In a write of 3 bytes through a buffer of 2: 2 bytes are downstream, the
\* buffer is empty and the third byte is still to be copied.
C26_Witness ==
    /\ FullyAccepted
    /\ cap = 2
    /\ ops = <<"write">>
    /\ opc = "w_loop"
    /\ pos = 3
    /\ Len(bytes) = 1
    /\ sink_v = First(S, 2)
    /\ buffer = <<>>

CeilDiv(n, c) == (n + c - 1) \div c

RECURSIVE ReadBudget(_, _)
\* ceil(n/c) + 1 upstream reads for each read call made so far
ReadBudget(calls, c) ==
    IF calls = <<>> THEN 0
    ELSE CeilDiv(calls[1].n, c) + 1 + ReadBudget(Subspan(calls, 1), c)

\* What C27 says without its last clause: every write and every read call
\* returns, a write of n bytes issues at most ceil(n/c) downstream writes, a
\* read of n bytes at most ceil(n/c) + 1 upstream reads.
TerminatesInBudget ==
    /\ (opc /= "idle") ~> (opc = "idle")
    /\ (ipc /= "idle") ~> (ipc = "idle")
    /\ []((ops /= <<>>) =>
            Len(wlog) - entry.nwrites <= CeilDiv(entry.asked, cap))
    /\ [](bcap >= 1 => Len(ureads) <= ReadBudget(iops, bcap))
    /\ []((bcap >= 1 /\ Len(iops) = 1) =>
            Len(ureads) <= CeilDiv(iops[1].n, bcap) + 1)

\* One pass of the loop of buf_istream::_read shrinks the room left in the
\* caller's view or sets the exhausted flag.
ReadPassShrinks ==
    [][(ipc = "r_loop" /\ s_left > 0) =>
         (s_left' < s_left \/ is_eof')]_vars

\* C27, as claimed: termination within the budget, and each pass of either
\* loop strictly shrinks the remaining input or sets the exhausted flag.
C27_Termination ==
    /\ TerminatesInBudget
    /\ ReadPassShrinks
    /\ [][(opc = "w_sub" /\ opc' = "w_loop") => Len(bytes') < Len(bytes)]_vars

\* C27, amended: a pass of the loop of buf_ostream::_write shrinks the
\* remaining input unless the buffer was full when the call began; then the
\* first pass, and only that one, copies nothing and empties the buffer.
C27_TerminationFullBuffer ==
    /\ TerminatesInBudget
    /\ ReadPassShrinks
    /\ [][(opc = "w_sub" /\ opc' = "w_loop") =>
            \/ Len(bytes') < Len(bytes)
            \/ /\ entry.fill = cap
               /\ Len(bytes) = entry.asked
               /\ bytes' = bytes
               /\ available = 0
               /\ available' = cap
         ]_vars

\* A write of 2 bytes into a full buffer of 1: the first pass sends the
\* buffer downstream and leaves the 2 bytes as they are.
C27_Witness ==
    /\ cap = 1
    /\ ops = <<"write", "write">>
    /\ entry.fill = 1
    /\ entry.asked = 2
    /\ opc = "w_loop"
    /\ Len(bytes) = 2
    /\ buffer = <<>>
    /\ Len(wlog) = entry.nwrites + 1

\* C28: when the upstream read of a refill raises, the failure reaches the
\* caller, the unconsumed sub-view is left empty and the exhausted flag as
\* it was, so the next read refills again and the bytes delivered never
\* outnumber the bytes the source has produced.
C28_FailedRefill ==
    /\ [][(ureads' /= ureads /\ iexc' = "read_error") =>
            /\ ipc' = "idle"
            /\ is_eof' = is_eof
            /\ av_len' = 0
         ]_vars
    /\ [](bcap >= 1 => Len(got) <= span_available)

\* write of at most cap bytes (nothing goes downstream), then two flushes,
\* the second of which succeeded, on a stdio sink.
WriteFlushFlush ==
    /\ sink_kind = "stdio"
    /\ ops = <<"write", "flush", "flush">>
    /\ FlushReturned
    /\ pos >= 1
    /\ pos <= cap

\* In WriteFlushFlush: the first flush failed in the downstream write, which
\* had accepted nothing (two downstream writes, one downstream flush, and
\* no more bytes downstream than were written).
RetriedAfterWriteError ==
    WriteFlushFlush /\ Len(wlog) = 2 /\ nflush = 1 /\ Len(sink_v) = pos

\* In WriteFlushFlush: the first flush wrote the buffer and failed, if at
\* all, in the downstream flush (one downstream write, two flushes).
RetriedAfterFlushError ==
    WriteFlushFlush /\ Len(wlog) = 1 /\ nflush = 2

\* C29: a downstream write that raises leaves the buffer as it was, and a
\* later flush that succeeds passes the whole buffer downstream, so bytes
\* whose first write was refused arrive exactly once; a downstream flush
\* that raises finds and leaves the buffer empty, and the next flush writes
\* nothing.
C29_FlushRetry ==
    /\ [][(wlog' /= wlog /\ sink_exc' = "write_error") =>
            /\ buffer' = buffer
            /\ sink_ret' = 0 => sink_v' = sink_v
         ]_vars
    /\ [][(wlog' /= wlog /\ sink_exc' = "none" /\ sink_kind = "stdio") =>
            sink_v' = sink_v \o buffer]_vars
    /\ [][(nflush' /= nflush /\ sink_exc' = "flush_error") =>
            (buffer = <<>> /\ buffer' = <<>>)]_vars
    /\ [](RetriedAfterWriteError => (sink_v = First(S, pos) /\ buffer = <<>>))
    /\ [](RetriedAfterFlushError => (sink_v = First(S, pos) /\ buffer = <<>>))

\* 2 bytes written, a flush whose downstream write was refused, a flush
\* that succeeded: the 2 bytes are downstream once.
C29_Witness ==
    /\ RetriedAfterWriteError
    /\ cap = 2
    /\ pos = 2
    /\ wlog = <<2, 2>>
    /\ sink_v = First(S, 2)
    /\ buffer = <<>>

\* C30: with at least sizeof(T) bytes left, get<T> returns the value made
\* of the next sizeof(T) bytes and the source is sizeof(T) bytes further;
\* with fewer left it returns nullopt and the source is at its end all the
\* same, so the read that follows returns nothing.
C30_FixedSizeGet ==
    g_pc = "done" =>
        IF Len(src) - g_from >= g_size
        THEN /\ g_ret = Value(SubSeq(src, g_from + 1, g_from + g_size))
             /\ Len(iops) = g_n => span_available = g_from + g_size
             /\ (Len(iops) = g_n + 1 /\ Len(iret) > 0) =>
                  iret[1] = src[g_from + g_size + 1]
        ELSE /\ g_ret = Nullopt
             /\ span_available = Len(src)
             /\ Len(iops) = g_n + 1 => iret = <<>>

\* get of a 2-byte value with 1 byte left of <<1, 2, 3>>: absent, and the
\* read that follows finds nothing.
C30_Witness ==
    /\ g_pc = "done"
    /\ src = TestSource
    /\ iops = <<ReadOp(2), ReadOp(2), ReadOp(1)>>
    /\ g_from = 2
    /\ g_size = 2
    /\ g_n = 2
    /\ g_ret = Nullopt
    /\ got = TestSource
    /\ iret = <<>>

====
